---- MODULE Spec2Model ----
(***************************************************************************)
(* A model of the consensus state derivations (package consensus) and of   *)
(* the framed RPC envelope (package rpc) of sia-core.                      *)
(*                                                                         *)
(* Machine integers are scaled: TLC's integers are 32 bits wide, so a      *)
(* uint64 of the program is modelled as an unsigned word of a few bits     *)
(* (each width is a named definition) and every conversion between widths  *)
(* and signs is carried out modulo the width, as the program does it.      *)
(***************************************************************************)
EXTENDS Integers, Sequences, FiniteSets, TLC

VARIABLES
    conn,    \* the bytes in flight on the stream, oldest first
    closed,  \* the writing side has closed the stream
    wlog,    \* what the writer has written, in order
    rlog,    \* what the reader's calls have returned, in order
    net,     \* the Network a State refers to
    st,      \* a State
    call,    \* the last derivation call: its name, its arguments, its result
    pool,    \* hasherPool: the hashers made so far, their contents, the free ones
    running  \* the hashing calls in progress, one per goroutine

vars == <<conn, closed, wlog, rlog, net, st, call, pool, running>>

\* no hasher has been made and no hashing call is in progress
NoHashing ==
    /\ pool = [made |-> 0, free |-> {}, buf |-> <<>>]
    /\ running = <<>>

\* a nil pointer or a nil interface value
Nil == [kind |-> "nil"]

Min(a, b) == IF a < b THEN a ELSE b

Max(a, b) == IF a > b THEN a ELSE b

\* F applied to the value of x: x is evaluated once, however often F uses it
Bind(x, F(_)) == CHOOSE y \in {F(v) : v \in {x}} : TRUE

Zeros(n) == [i \in 1..n |-> 0]

Take(s, n) == SubSeq(s, 1, n)

Drop(s, n) == SubSeq(s, n + 1, Len(s))

(***************************************************************************)
(* types.Encoder: the primitives the envelope and the supplements use.     *)
(* A byte is a number in 0..255, a string is the sequence of its bytes.    *)
(***************************************************************************)
WriteBool(b) == <<IF b THEN 1 ELSE 0>>

\* eight bytes, little-endian; the values written here are below 2^31, so
\* the bytes 5..8 are zero
WriteUint64(n) ==
    [i \in 1..8 |-> IF i <= 3 THEN (n \div (256 ^ (i - 1))) % 256
                    ELSE IF i = 4 THEN n \div (256 ^ 3)
                    ELSE 0]

WritePrefix(n) == WriteUint64(n)

WriteBytes(b) == WritePrefix(Len(b)) \o b

WriteString(s) == WritePrefix(Len(s)) \o s

(***************************************************************************)
(* types.Decoder over an io.LimitedReader.  A decoder is a record          *)
(*   in      the bytes the stream still holds                              *)
(*   N       the LimitedReader's remaining budget (a signed number)        *)
(*   err     the sticky error                                              *)
(*   starved a read ran out of stream while the budget allowed more        *)
(***************************************************************************)
NewDecoder(stream, n) == [in |-> stream, N |-> n, err |-> FALSE, starved |-> FALSE]

\* Decoder.Read into the buffer p: io.ReadFull on the LimitedReader, which
\* returns EOF once N <= 0 and never hands out more than N bytes.  The bytes
\* read overwrite the front of p; after an error a read is a no-op.
DReadInto(d, p) ==
    IF d.err THEN [d |-> d, v |-> p]
    ELSE LET n == Len(p)
             k == Min(n, Min(Max(d.N, 0), Len(d.in)))
         IN  [d |-> [in      |-> Drop(d.in, k),
                     N       |-> d.N - k,
                     err     |-> k < n,
                     starved |-> k < n /\ k < d.N],
              v |-> Take(d.in, k) \o Drop(p, k)]

\* a read into a fresh buffer of n bytes; it yields zeros after an error
DRead(d, n) == Bind(Zeros(n), LAMBDA p : DReadInto(d, p))

\* a value too large for any budget of the model
HugePrefix == 2 ^ 30

Uint64Of(v) ==
    IF v[5] # 0 \/ v[6] # 0 \/ v[7] # 0 \/ v[8] # 0 \/ v[4] >= 64
    THEN HugePrefix
    ELSE v[1] + 256 * v[2] + 256 * 256 * v[3] + 256 * 256 * 256 * v[4]

ReadUint64(d) ==
    Bind(DRead(d, 8), LAMBDA r : [d |-> r.d, v |-> Uint64Of(r.v)])

ReadBool(d) ==
    Bind(DRead(d, 1), LAMBDA r :
        IF r.v[1] > 1
        THEN [d |-> [r.d EXCEPT !.err = TRUE], v |-> FALSE]
        ELSE [d |-> r.d, v |-> r.v[1] = 1])

\* a length prefix larger than the remaining budget is rejected
ReadPrefix(d) ==
    Bind(ReadUint64(d), LAMBDA r :
        IF ~r.d.err /\ r.v > r.d.N
        THEN [d |-> [r.d EXCEPT !.err = TRUE], v |-> 0]
        ELSE [d |-> r.d, v |-> IF r.d.err THEN 0 ELSE r.v])

ReadBytes(d) ==
    Bind(ReadPrefix(d), LAMBDA p : DRead(p.d, p.v))

ReadString(d) == ReadBytes(d)

(***************************************************************************)
(* package rpc                                                             *)
(***************************************************************************)
SpecifierLen == 16

NewSpecifier(str) == str \o Zeros(SpecifierLen - Len(str))

ZeroSpecifier == Zeros(SpecifierLen)

SpecifierEncodeTo(s) == s

\* d.Read(s[:]): the bytes land in the caller's array
SpecifierDecodeFrom(d, s) == DReadInto(d, s)

\* the zero value of rpc.Error (a nil slice and an empty slice are both <<>>)
EmptyError == [Type |-> ZeroSpecifier, Data |-> <<>>, Description |-> <<>>]

ErrorEncodeTo(e) ==
    SpecifierEncodeTo(e.Type) \o WriteBytes(e.Data) \o WriteString(e.Description)

\* the three fields are assigned one after the other: what was decoded
\* before the decoder's error tripped stays in the object
ErrorDecodeFrom(d, e) ==
    Bind(SpecifierDecodeFrom(d, e.Type), LAMBDA t :
    Bind(ReadBytes(t.d), LAMBDA b :
    Bind(ReadString(b.d), LAMBDA s :
        [d |-> s.d, v |-> [Type |-> t.v, Data |-> b.v, Description |-> s.v]])))

ErrorString(e) == e.Description

\* a Go error handed to WriteResponse: Nil, an *rpc.Error, or any other error
\* (of which only the text is sent)
RpcErr(e) == [kind |-> "rpc", e |-> e]

GenericErr(text) == [kind |-> "generic", text |-> text]

ErrText(err) == IF err.kind = "rpc" THEN ErrorString(err.e) ELSE err.text

\* rpcResponse{err, enc}: the response body is a Specifier-shaped object
rpcResponseEncodeTo(resp) ==
    WriteBool(resp.err # Nil)
        \o (IF resp.err # Nil THEN ErrorEncodeTo(resp.err)
            ELSE SpecifierEncodeTo(resp.enc))

\* rpcResponse{dec}: resp.dec is the caller's body, decoded into only when
\* the frame does not announce an error
rpcResponseDecodeFrom(d, resp) ==
    Bind(ReadBool(d), LAMBDA b :
        IF b.v
        THEN Bind(ErrorDecodeFrom(b.d, EmptyError), LAMBDA e :
                 [d |-> e.d, v |-> [err |-> e.v, dec |-> resp.dec]])
        ELSE Bind(SpecifierDecodeFrom(b.d, resp.dec), LAMBDA r :
                 [d |-> r.d, v |-> [err |-> resp.err, dec |-> r.v]]))

\* the width of the model's uint64 / int64 for byte budgets
LenBits == 7

\* int64(maxLen)
Int64(u) == IF u >= 2 ^ (LenBits - 1) THEN u - 2 ^ LenBits ELSE u

EncodeTo(kind, obj) ==
    CASE kind = "Specifier" -> SpecifierEncodeTo(obj)
      [] kind = "Error" -> ErrorEncodeTo(obj)
      [] kind = "rpcResponse" -> rpcResponseEncodeTo(obj)

DecodeFrom(kind, d, obj) ==
    CASE kind = "Specifier" -> SpecifierDecodeFrom(d, obj)
      [] kind = "Error" -> ErrorDecodeFrom(d, obj)
      [] kind = "rpcResponse" -> rpcResponseDecodeFrom(d, obj)

\* WriteObject: the bytes a complete write appends to the stream
WriteObject(kind, obj) == EncodeTo(kind, obj)

\* ReadObject(conn, obj, maxLen): the object after the call, the decoder's
\* error, what is left of the stream, and whether the call would still be
\* waiting for bytes on an open stream
ReadObject(stream, kind, obj, maxLen) ==
    Bind(NewDecoder(stream, Int64(maxLen)), LAMBDA d :
    Bind(DecodeFrom(kind, d, obj), LAMBDA r :
        [obj |-> r.v, err |-> r.d.err, rest |-> r.d.in,
         used |-> Len(stream) - Len(r.d.in), starved |-> r.d.starved]))

\* WriteRequest: the ID, then the request object unless it is nil
WriteRequest(id, req) ==
    WriteObject("Specifier", id)
        \o (IF req # Nil THEN WriteObject("Error", req) ELSE <<>>)

ReadID(stream) == ReadObject(stream, "Specifier", ZeroSpecifier, SpecifierLen)

ReadRequest(stream, req, maxLen) == ReadObject(stream, "Error", req, maxLen)

\* WriteResponse with the text of an error that is no *rpc.Error left out
WriteResponseNoText(resp, err) ==
    LET re == IF err = Nil THEN Nil
              ELSE IF err.kind = "rpc" THEN err.e
              ELSE EmptyError
    IN  EncodeTo("rpcResponse", [enc |-> resp, err |-> re])

\* WriteResponse: an *rpc.Error is sent as it is, any other error as an
\* rpc.Error that holds its text
WriteResponse(resp, err) ==
    LET re == IF err = Nil THEN Nil
              ELSE IF err.kind = "rpc" THEN err.e
              ELSE [EmptyError EXCEPT !.Description = err.text]
    IN  WriteObject("rpcResponse", [enc |-> resp, err |-> re])

\* "failed to read message: "
ReadFailedText == <<102, 97, 105, 108, 101, 100, 32, 116, 111, 32, 114, 101,
                    97, 100, 32, 109, 101, 115, 115, 97, 103, 101, 58, 32>>

\* "response error: "
ResponseErrorText == <<114, 101, 115, 112, 111, 110, 115, 101, 32, 101, 114,
                       114, 111, 114, 58, 32>>

\* the text of the decoder's error ("EOF")
DecodeErrText == <<69, 79, 70>>

\* ReadResponse: the error it returns (Nil, or its kind, its text and the
\* rpc.Error it wraps), the caller's body after the call, the stream after it
ReadResponse(stream, resp, maxLen) ==
    Bind(ReadObject(stream, "rpcResponse", [err |-> Nil, dec |-> resp], maxLen),
         LAMBDA r :
        [ret |-> IF r.err
                 THEN [kind |-> "read", text |-> ReadFailedText \o DecodeErrText,
                       wraps |-> Nil]
                 ELSE IF r.obj.err # Nil
                 THEN [kind |-> "response",
                       text |-> ResponseErrorText \o ErrorString(r.obj.err),
                       wraps |-> r.obj.err]
                 ELSE Nil,
         body |-> r.obj.dec, rest |-> r.rest, used |-> r.used,
         starved |-> r.starved])

(***************************************************************************)
(* The request direction: a client writes requests back to back, a server  *)
(* reads them with alternating ReadID / ReadRequest calls.                  *)
(***************************************************************************)
MaxRequests == 2

\* the RPC that carries no request object
PingID == NewSpecifier(<<80>>)

IDs == {PingID, NewSpecifier(<<83, 101, 116>>)}

Requests ==
    [Type : {NewSpecifier(<<7>>)}, Data : {<<>>, <<9>>},
     Description : {<<>>, <<104, 105>>}]

\* the budgets a reader passes: none, one between the shortest and the
\* longest request, and the largest values of the signed and unsigned word
MaxLens == {0, 33, 2 ^ (LenBits - 1) - 1, 2 ^ (LenBits - 1), 2 ^ LenBits - 1}

RequestInit ==
    /\ conn = <<>>
    /\ closed = FALSE
    /\ wlog = <<>>
    /\ rlog = <<>>
    /\ net = Nil
    /\ st = Nil
    /\ call = Nil
    /\ NoHashing

\* the client's WriteRequest(conn, id, req) returns nil
DoWriteRequest ==
    \E id \in IDs, req \in Requests \cup {Nil} :
        /\ ~closed
        /\ Len(wlog) < MaxRequests
        /\ (req = Nil) <=> (id = PingID)
        /\ conn' = conn \o WriteRequest(id, req)
        /\ wlog' = Append(wlog, [id |-> id, req |-> req, ok |-> TRUE])
        /\ UNCHANGED <<closed, rlog, net, st, call, pool, running>>

\* the client's WriteRequest fails part-way: the connection breaks after k
\* bytes of the request went out
FailWriteRequest ==
    \E id \in IDs, req \in Requests \cup {Nil} :
        \E k \in {0, 5, SpecifierLen, SpecifierLen + 20} :
            /\ ~closed
            /\ Len(wlog) < MaxRequests
            /\ (req = Nil) <=> (id = PingID)
            /\ k < Len(WriteRequest(id, req))
            /\ conn' = conn \o Take(WriteRequest(id, req), k)
            /\ closed' = TRUE
            /\ wlog' = Append(wlog, [id |-> id, req |-> req, ok |-> FALSE])
            /\ UNCHANGED <<rlog, net, st, call, pool, running>>

Close ==
    /\ ~closed
    /\ closed' = TRUE
    /\ UNCHANGED <<conn, wlog, rlog, net, st, call, pool, running>>

\* the server's next call: an ID, then the request object of an RPC that has
\* one; it gives up at the first error
ReaderNext ==
    IF rlog = <<>> THEN "ReadID"
    ELSE LET l == rlog[Len(rlog)]
         IN  IF l.err THEN "stop"
             ELSE IF l.op = "ReadID" /\ l.id # PingID THEN "ReadRequest"
             ELSE "ReadID"

DoReadID ==
    \E r \in {ReadID(conn)} :
        /\ ReaderNext = "ReadID"
        /\ closed \/ ~r.starved
        /\ conn' = r.rest
        /\ rlog' = Append(rlog, [op |-> "ReadID", id |-> r.obj, err |-> r.err,
                                 used |-> r.used])
        /\ UNCHANGED <<closed, wlog, net, st, call, pool, running>>

DoReadRequest ==
    \E maxLen \in MaxLens :
        \E r \in {ReadRequest(conn, EmptyError, maxLen)} :
            /\ ReaderNext = "ReadRequest"
            /\ closed \/ ~r.starved
            /\ conn' = r.rest
            /\ rlog' = Append(rlog, [op |-> "ReadRequest", maxLen |-> maxLen,
                                     req |-> r.obj, err |-> r.err, used |-> r.used])
            /\ UNCHANGED <<closed, wlog, net, st, call, pool, running>>

RequestNext ==
    \/ DoWriteRequest
    \/ FailWriteRequest
    \/ Close
    \/ DoReadID
    \/ DoReadRequest

SpecRequest == RequestInit /\ [][RequestNext]_vars

\* the request the i-th call of the reader belongs to
ReqIndex(i) == Cardinality({k \in 1..i : rlog[k].op = "ReadID"})

\* the read calls recover the written requests, for the budgets b(maxLen)
\* that are at least the encoded length of the request object
Recovered(b(_)) ==
    \A i \in 1..Len(rlog) :
        LET j == ReqIndex(i)
            r == rlog[i]
        IN  (j <= Len(wlog) /\ wlog[j].ok) =>
                IF r.op = "ReadID"
                THEN ~r.err /\ r.id = wlog[j].id /\ r.used = SpecifierLen
                ELSE b(r.maxLen) >= Len(ErrorEncodeTo(wlog[j].req)) =>
                         /\ ~r.err
                         /\ r.req = wlog[j].req
                         /\ r.used = Len(ErrorEncodeTo(wlog[j].req))

\* C1: requests written back to back with WriteRequest are recovered in
\* order by alternating ReadID / ReadRequest calls: ReadID returns the
\* written id and consumes exactly the 16 specifier bytes, and ReadRequest
\* with maxLen at least the encoded length of the request object decodes an
\* object equal to the one written.
C1_RequestsRecovered == Recovered(LAMBDA m : m)

\* What the program does achieve: the same statement for the budgets whose
\* conversion to int64 is at least the encoded length.
RequestsRecoveredWithinInt64 == Recovered(Int64)

\* the object a failed read leaves in the caller's hands is empty
LeftEmpty(r) ==
    IF r.op = "ReadID" THEN r.id = ZeroSpecifier ELSE r.req = EmptyError

\* the stream ended, or the budget ran out, before request j was decoded:
\* the request was cut short by the writer, or the budget is below its length
CutShort(i) ==
    LET j == ReqIndex(i)
        r == rlog[i]
    IN  \/ j > Len(wlog)
        \/ ~wlog[j].ok
        \/ r.op = "ReadRequest" /\ Int64(r.maxLen) < Len(ErrorEncodeTo(wlog[j].req))

\* C3: when the stream ends, or the maxLen ceiling is reached, before the
\* object is fully decoded, ReadObject returns a decode error and the
\* caller's object is left empty: nothing decoded before the failure stays.
C3_FailedReadLeavesEmpty ==
    \A i \in 1..Len(rlog) :
        /\ rlog[i].err => LeftEmpty(rlog[i])
        /\ (CutShort(i) /\ ~rlog[i].err) =>
               /\ rlog[i].op = "ReadID"
               /\ ReqIndex(i) <= Len(wlog)

(***************************************************************************)
(* The response direction: a server writes responses back to back, a       *)
(* client reads each with ReadResponse into a body of its own.             *)
(***************************************************************************)
MaxResponses == 2

NilBody == <<>>

Bodies == {NewSpecifier(<<2, 3>>)}

\* the bodies a caller hands to ReadResponse: a fresh one, a used one
CallerBodies == {ZeroSpecifier, NewSpecifier(<<9>>)}

\* "boom"
Boom == <<98, 111, 111, 109>>

ResponseErrors ==
    {RpcErr([Type |-> NewSpecifier(<<7>>), Data |-> <<9>>,
             Description |-> <<104, 105>>]),
     GenericErr(Boom)}

\* the budgets a client passes: the length of a body frame, the length of
\* the shorter error frame, the largest signed word and the one after it
RespMaxLens == {17, 36, 2 ^ (LenBits - 1) - 1, 2 ^ (LenBits - 1)}

ResponseInit == RequestInit

\* the server's WriteResponse(conn, resp, nil) or WriteResponse(conn, nil, err)
DoWriteResponse ==
    \E resp \in Bodies \cup {NilBody}, err \in ResponseErrors \cup {Nil} :
        /\ ~closed
        /\ Len(wlog) < MaxResponses
        /\ (resp = NilBody) <=> (err # Nil)
        /\ conn' = conn \o WriteResponse(resp, err)
        /\ wlog' = Append(wlog, [resp |-> resp, err |-> err, ok |-> TRUE])
        /\ UNCHANGED <<closed, rlog, net, st, call, pool, running>>

\* the server's WriteResponse fails part-way
FailWriteResponse ==
    \E resp \in Bodies \cup {NilBody}, err \in ResponseErrors \cup {Nil} :
        \E k \in {0, 1, 10, 20} :
            /\ ~closed
            /\ Len(wlog) < MaxResponses
            /\ (resp = NilBody) <=> (err # Nil)
            /\ k < Len(WriteResponse(resp, err))
            /\ conn' = conn \o Take(WriteResponse(resp, err), k)
            /\ closed' = TRUE
            /\ wlog' = Append(wlog, [resp |-> resp, err |-> err, ok |-> FALSE])
            /\ UNCHANGED <<rlog, net, st, call, pool, running>>

ClientGaveUp ==
    IF rlog = <<>> THEN FALSE ELSE rlog[Len(rlog)].ret.kind = "read"

\* the client's ReadResponse(conn, &body, maxLen); it gives up once a
\* response could not be read
DoReadResponse ==
    \E maxLen \in RespMaxLens, body \in CallerBodies :
        \E r \in {ReadResponse(conn, body, maxLen)} :
            /\ ~ClientGaveUp
            /\ closed \/ ~r.starved
            /\ conn' = r.rest
            /\ rlog' = Append(rlog, [op |-> "ReadResponse", maxLen |-> maxLen,
                                     before |-> body, body |-> r.body,
                                     ret |-> r.ret, used |-> r.used])
            /\ UNCHANGED <<closed, wlog, net, st, call, pool, running>>

ResponseNext ==
    \/ DoWriteResponse
    \/ FailWriteResponse
    \/ Close
    \/ DoReadResponse

SpecResponse == ResponseInit /\ [][ResponseNext]_vars

\* t occurs in s
Contains(s, t) ==
    \E i \in 0..(Len(s) - Len(t)) : SubSeq(s, i + 1, i + Len(t)) = t

\* the i-th ReadResponse read the whole frame of the i-th response
Mirrors(r, w) ==
    IF w.err # Nil
    THEN /\ r.ret.kind = "response"
         /\ Contains(r.ret.text, ErrText(w.err))
         /\ w.err.kind = "rpc" =>
                /\ r.ret.wraps.Type = w.err.e.Type
                /\ r.ret.wraps.Data = w.err.e.Data
         /\ r.body = r.before
    ELSE /\ r.ret = Nil
         /\ r.body = w.resp

ElementEncodeTo(e) == <<e>>

ElementDecodeFrom(d) == Bind(DRead(d, 1), LAMBDA r : [d |-> r.d, v |-> r.v[1]])

RECURSIVE EncodeElements(_)
\* for i := range elems { elems[i].EncodeTo(e) }
EncodeElements(elems) ==
    IF elems = <<>> THEN <<>>
    ELSE ElementEncodeTo(Head(elems)) \o EncodeElements(Tail(elems))

RECURSIVE DecodeElements(_, _)
\* elems = make([]T, n); for i := range elems { elems[i].DecodeFrom(d) }
DecodeElements(d, n) ==
    IF n = 0 THEN [d |-> d, v |-> <<>>]
    ELSE Bind(ElementDecodeFrom(d), LAMBDA e :
         Bind(DecodeElements(e.d, n - 1), LAMBDA r :
             [d |-> r.d, v |-> <<e.v>> \o r.v]))

ReadElements(d) == Bind(ReadPrefix(d), LAMBDA p : DecodeElements(p.d, p.v))

\* the zero value of V1TransactionSupplement
EmptyTransactionSupplement ==
    [SiacoinInputs |-> <<>>, SiafundInputs |-> <<>>,
     RevisedFileContracts |-> <<>>, ValidFileContracts |-> <<>>,
     StorageProofBlockIDs |-> <<>>]

V1TransactionSupplementEncodeTo(ts) ==
    WritePrefix(Len(ts.SiacoinInputs)) \o EncodeElements(ts.SiacoinInputs)
        \o WritePrefix(Len(ts.SiafundInputs)) \o EncodeElements(ts.SiafundInputs)
        \o WritePrefix(Len(ts.RevisedFileContracts))
        \o EncodeElements(ts.RevisedFileContracts)
        \o WritePrefix(Len(ts.ValidFileContracts))
        \o EncodeElements(ts.ValidFileContracts)

\* the four element lists are assigned; StorageProofBlockIDs is not touched
V1TransactionSupplementDecodeFrom(d, ts) ==
    Bind(ReadElements(d), LAMBDA sci :
    Bind(ReadElements(sci.d), LAMBDA sfi :
    Bind(ReadElements(sfi.d), LAMBDA rev :
    Bind(ReadElements(rev.d), LAMBDA val :
        [d |-> val.d,
         v |-> [SiacoinInputs |-> sci.v, SiafundInputs |-> sfi.v,
                RevisedFileContracts |-> rev.v, ValidFileContracts |-> val.v,
                StorageProofBlockIDs |-> ts.StorageProofBlockIDs]]))))

\* storageProofWindowID(id): the block ID next to the valid contract id, a
\* panic when the contract is missing or the block IDs are fewer
storageProofWindowID(ts, id) ==
    LET hits == {i \in 1..Len(ts.ValidFileContracts) : ts.ValidFileContracts[i] = id}
    IN  IF hits = {} THEN [panic |-> TRUE, v |-> 0]
        ELSE LET i == CHOOSE k \in hits : \A m \in hits : k <= m
             IN  IF i > Len(ts.StorageProofBlockIDs) THEN [panic |-> TRUE, v |-> 0]
                 ELSE [panic |-> FALSE, v |-> ts.StorageProofBlockIDs[i]]

EmptyBlockSupplement == [Transactions |-> <<>>, ExpiringFileContracts |-> <<>>]

RECURSIVE EncodeTransactionSupplements(_)
EncodeTransactionSupplements(tss) ==
    IF tss = <<>> THEN <<>>
    ELSE V1TransactionSupplementEncodeTo(Head(tss))
             \o EncodeTransactionSupplements(Tail(tss))

RECURSIVE DecodeTransactionSupplements(_, _)
DecodeTransactionSupplements(d, n) ==
    IF n = 0 THEN [d |-> d, v |-> <<>>]
    ELSE Bind(V1TransactionSupplementDecodeFrom(d, EmptyTransactionSupplement),
              LAMBDA t :
         Bind(DecodeTransactionSupplements(t.d, n - 1), LAMBDA r :
             [d |-> r.d, v |-> <<t.v>> \o r.v]))

V1BlockSupplementEncodeTo(bs) ==
    WritePrefix(Len(bs.Transactions)) \o EncodeTransactionSupplements(bs.Transactions)
        \o WritePrefix(Len(bs.ExpiringFileContracts))
        \o EncodeElements(bs.ExpiringFileContracts)

V1BlockSupplementDecodeFrom(d, bs) ==
    Bind(ReadPrefix(d), LAMBDA p :
    Bind(DecodeTransactionSupplements(p.d, p.v), LAMBDA txns :
    Bind(ReadElements(txns.d), LAMBDA exp :
        [d |-> exp.d,
         v |-> [Transactions |-> txns.v, ExpiringFileContracts |-> exp.v]])))

\* the longest element list of a supplement
MaxElements == 1

\* the most transaction supplements of a block supplement
MaxTransactions == 2

Elements == {1, 2}

BlockIDs == {7, 8}

SeqsUpTo(S, n) == UNION {[1..k -> S] : k \in 0..n}

\* the supplements the chain engine builds: one block ID per valid contract
TransactionSupplements ==
    {ts \in [SiacoinInputs : SeqsUpTo(Elements, MaxElements),
             SiafundInputs : SeqsUpTo({1}, MaxElements),
             RevisedFileContracts : SeqsUpTo({2}, MaxElements),
             ValidFileContracts : SeqsUpTo(Elements, MaxElements),
             StorageProofBlockIDs : SeqsUpTo(BlockIDs, MaxElements)] :
        Len(ts.StorageProofBlockIDs) = Len(ts.ValidFileContracts)}

SupplementInit ==
    /\ conn = <<>>
    /\ closed = FALSE
    /\ wlog = <<>>
    /\ rlog = <<>>
    /\ net = Nil
    /\ st = Nil
    /\ \E ts \in TransactionSupplements :
           call = [op |-> "new", ts |-> ts, bs |-> EmptyBlockSupplement]
    /\ NoHashing

\* the engine collects the transaction's supplement into a block supplement
AddToBlock ==
    \E exp \in SeqsUpTo(Elements, MaxElements), n \in 1..MaxTransactions :
        /\ call.op = "new"
        /\ call' = [call EXCEPT !.op = "block",
                                !.bs = [Transactions |-> [i \in 1..n |-> call.ts],
                                        ExpiringFileContracts |-> exp]]
        /\ UNCHANGED <<conn, closed, wlog, rlog, net, st, pool, running>>

EncodeTransactionSupplement ==
    /\ call.op = "new"
    /\ conn' = V1TransactionSupplementEncodeTo(call.ts)
    /\ call' = [call EXCEPT !.op = "encoded"]
    /\ UNCHANGED <<closed, wlog, rlog, net, st, pool, running>>

\* decoding into a fresh value from a decoder whose budget covers the bytes
DecodeTransactionSupplement ==
    \E r \in {V1TransactionSupplementDecodeFrom(NewDecoder(conn, Len(conn)),
                                                EmptyTransactionSupplement)} :
        /\ call.op = "encoded"
        /\ conn' = r.d.in
        /\ call' = [op |-> "decoded", ts |-> call.ts, bs |-> call.bs,
                    out |-> r.v, err |-> r.d.err]
        /\ UNCHANGED <<closed, wlog, rlog, net, st, pool, running>>

EncodeBlockSupplement ==
    /\ call.op = "block"
    /\ conn' = V1BlockSupplementEncodeTo(call.bs)
    /\ call' = [call EXCEPT !.op = "encodedBlock"]
    /\ UNCHANGED <<closed, wlog, rlog, net, st, pool, running>>

DecodeBlockSupplement ==
    \E r \in {V1BlockSupplementDecodeFrom(NewDecoder(conn, Len(conn)),
                                          EmptyBlockSupplement)} :
        /\ call.op = "encodedBlock"
        /\ conn' = r.d.in
        /\ call' = [op |-> "decodedBlock", ts |-> call.ts, bs |-> call.bs,
                    out |-> r.v, err |-> r.d.err]
        /\ UNCHANGED <<closed, wlog, rlog, net, st, pool, running>>

SupplementNext ==
    \/ AddToBlock
    \/ EncodeTransactionSupplement
    \/ DecodeTransactionSupplement
    \/ EncodeBlockSupplement
    \/ DecodeBlockSupplement

SpecSupplement == SupplementInit /\ [][SupplementNext]_vars

\* C4: decoding the bytes EncodeTo produced for a V1TransactionSupplement
\* (also one whose StorageProofBlockIDs are non-empty and aligned with the
\* valid contracts), or for a V1BlockSupplement built from such supplements,
\* into a fresh value yields a value equal to the original in every field.
C4_SupplementRoundTrip ==
    /\ call.op = "decoded" =>
           /\ ~call.err
           /\ call.out = call.ts
           /\ \A id \in Elements :
                  storageProofWindowID(call.out, id) = storageProofWindowID(call.ts, id)
    /\ call.op = "decodedBlock" => (~call.err /\ call.out = call.bs)

\* What the program does achieve: every field but StorageProofBlockIDs comes
\* back, the stream is consumed to its end, and StorageProofBlockIDs is empty.
SupplementRoundTripButBlockIDs ==
    LET Strip(ts) == [ts EXCEPT !.StorageProofBlockIDs = <<>>]
    IN  /\ call.op = "decoded" =>
               (~call.err /\ conn = <<>> /\ call.out = Strip(call.ts))
        /\ call.op = "decodedBlock" =>
               /\ ~call.err
               /\ conn = <<>>
               /\ call.out.ExpiringFileContracts = call.bs.ExpiringFileContracts
               /\ Len(call.out.Transactions) = Len(call.bs.Transactions)
               /\ \A i \in 1..Len(call.bs.Transactions) :
                      call.out.Transactions[i] = Strip(call.bs.Transactions[i])

(***************************************************************************)
(* package consensus: Network, State and the derivations of a State.       *)
(* A height is a uint64, here an unsigned word of HeightBits bits.  An     *)
(* address is a number, a time is a number of nanoseconds.  The amounts of *)
(* the reward and subsidy schedules are counted in siacoins: every amount  *)
(* the schedules compute is a whole number of siacoins.                    *)
(***************************************************************************)
HeightBits == 14

U64 == 2 ^ HeightBits

\* uint32(x) of a uint64 x: the low half of the word
Uint32(x) == x % (2 ^ (HeightBits \div 2))

\* intToTarget(maxTarget)
MaxTarget == 255

NumPrevTimestamps == 11

BaseNetwork ==
    [InitialCoinbase |-> 100, MinimumCoinbase |-> 30, InitialTarget |-> 5,
     HardforkDevAddr |-> [Height |-> 1],
     HardforkTax |-> [Height |-> 3],
     HardforkStorageProof |-> [Height |-> 4],
     HardforkOak |-> [Height |-> 4, FixHeight |-> 5],
     HardforkASIC |-> [Height |-> 5],
     HardforkFoundation |-> [Height |-> 8, PrimaryAddress |-> 1,
                             FailsafeAddress |-> 2],
     HardforkV2 |-> [AllowHeight |-> 11, RequireHeight |-> 13]]

\* Network.GenesisState: the state the genesis block is applied to; its
\* height is ^uint64(0)
GenesisState(n) ==
    [Index |-> [Height |-> U64 - 1],
     PrevTimestamps |-> [i \in 1..NumPrevTimestamps |-> 0],
     Depth |-> MaxTarget,
     ChildTarget |-> n.InitialTarget,
     SiafundPool |-> 0,
     OakTime |-> 0,
     OakTarget |-> MaxTarget,
     FoundationPrimaryAddress |-> n.HardforkFoundation.PrimaryAddress,
     FoundationFailsafeAddress |-> n.HardforkFoundation.FailsafeAddress]

\* a state of the chain at height h
StateAt(n, h) == [GenesisState(n) EXCEPT !.Index.Height = h]

childHeight(s) == (s.Index.Height + 1) % U64

numTimestamps(s) ==
    IF childHeight(s) < NumPrevTimestamps THEN childHeight(s)
    ELSE NumPrevTimestamps

RECURSIVE Insert(_, _)
Insert(x, sorted) ==
    IF sorted = <<>> THEN <<x>>
    ELSE IF x <= Head(sorted) THEN <<x>> \o sorted
    ELSE <<Head(sorted)>> \o Insert(x, Tail(sorted))

RECURSIVE Sort(_)
\* sort.Slice(ts, ts[i].Before(ts[j]))
Sort(ts) == IF ts = <<>> THEN <<>> ELSE Insert(Head(ts), Sort(Tail(ts)))

\* medianTimestamp: ts holds the first numTimestamps() entries, sorted; the
\* slice is indexed from 0, and an index outside 0..len(ts)-1 panics
medianTimestamp(s) ==
    LET ts == Sort(Take(s.PrevTimestamps, numTimestamps(s)))
        n == Len(ts)
        InRange(i) == 0 <= i /\ i < n
    IN  IF n % 2 # 0
        THEN [panic |-> FALSE, v |-> ts[(n \div 2) + 1]]
        ELSE IF ~InRange((n \div 2) - 1) \/ ~InRange(n \div 2)
        THEN [panic |-> TRUE, v |-> 0]
        ELSE LET l == ts[n \div 2]
                 r == ts[(n \div 2) + 1]
             IN  [panic |-> FALSE, v |-> l + ((r - l) \div 2)]

\* types.Siacoins(n)
Siacoins(n) == n

\* Currency.SubWithUnderflow
SubWithUnderflow(a, b) ==
    IF a < b THEN [v |-> 0, underflow |-> TRUE] ELSE [v |-> a - b, underflow |-> FALSE]

BlockReward(n, s) ==
    LET r == SubWithUnderflow(n.InitialCoinbase, Siacoins(Uint32(childHeight(s))))
    IN  IF r.underflow \/ r.v < n.MinimumCoinbase THEN n.MinimumCoinbase
        ELSE r.v

MaturityHeight(s) == (childHeight(s) + 144) % U64

SiafundCount == 10000

blocksPerYear == 144 * 365

blocksPerMonth == blocksPerYear \div 12

\* a schedule without the first-year payment: the hardfork block is paid as
\* any other month
FoundationSubsidyMonthlyOnly(n, s) ==
    LET subsidyPerBlock == Siacoins(30000)
        hardforkHeight == n.HardforkFoundation.Height
    IN  [Address |-> s.FoundationPrimaryAddress,
         Value |->
             IF childHeight(s) < hardforkHeight
                  \/ ((childHeight(s) - hardforkHeight) % U64) % blocksPerMonth # 0
             THEN 0
             ELSE subsidyPerBlock * blocksPerMonth]

FoundationSubsidy(n, s) ==
    LET subsidyPerBlock == Siacoins(30000)
        hardforkHeight == n.HardforkFoundation.Height
    IN  [Address |-> s.FoundationPrimaryAddress,
         Value |->
             IF childHeight(s) < hardforkHeight
                  \/ ((childHeight(s) - hardforkHeight) % U64) % blocksPerMonth # 0
             THEN 0
             ELSE IF childHeight(s) = hardforkHeight
             THEN subsidyPerBlock * blocksPerYear
             ELSE subsidyPerBlock * blocksPerMonth]

NonceFactor(n, s) ==
    IF childHeight(s) < n.HardforkASIC.Height THEN 1 ELSE 1009

\* a prefix chosen by the height of the child block
replayPrefixOfChild(n, s) ==
    IF childHeight(s) >= n.HardforkV2.AllowHeight THEN <<2>>
    ELSE IF childHeight(s) >= n.HardforkFoundation.Height THEN <<1>>
    ELSE IF childHeight(s) >= n.HardforkASIC.Height THEN <<0>>
    ELSE <<>>

\* replayPrefix: a byte string, nil before the ASIC hardfork
replayPrefix(n, s) ==
    IF s.Index.Height >= n.HardforkV2.AllowHeight THEN <<2>>
    ELSE IF s.Index.Height >= n.HardforkFoundation.Height THEN <<1>>
    ELSE IF s.Index.Height >= n.HardforkASIC.Height THEN <<0>>
    ELSE <<>>

NoCall == [op |-> "none"]

(***************************************************************************)
(* medianTimestamp over the states of the first heights                    *)
(***************************************************************************)
MaxTimestampHeight == 11

Timestamps == {1, 4}

\* the timestamps a state at height h holds: the slots past the chain's
\* length are zero
PrevTimestampsAt(h) ==
    {ts \in [1..NumPrevTimestamps -> Timestamps \cup {0}] :
        \A i \in 1..NumPrevTimestamps : (ts[i] = 0) <=> (i > h + 1)}

MedianInit ==
    /\ conn = <<>>
    /\ closed = FALSE
    /\ wlog = <<>>
    /\ rlog = <<>>
    /\ net = BaseNetwork
    /\ st \in {GenesisState(net)}
           \cup UNION {{[StateAt(net, h) EXCEPT !.PrevTimestamps = ts] :
                            ts \in PrevTimestampsAt(h)} :
                        h \in 0..MaxTimestampHeight}
    /\ call = NoCall
    /\ NoHashing

CallMedianTimestamp ==
    /\ call.op = "none"
    /\ call' = [op |-> "medianTimestamp", ret |-> medianTimestamp(st)]
    /\ UNCHANGED <<conn, closed, wlog, rlog, net, st, pool, running>>

MedianNext == CallMedianTimestamp

SpecMedian == MedianInit /\ [][MedianNext]_vars

\* C5: on the genesis state returned by Network.GenesisState the
\* median-timestamp computation completes without failing and returns the
\* zero time.
C5_GenesisMedianIsZero ==
    (call.op = "medianTimestamp" /\ st = GenesisState(net)) =>
        (~call.ret.panic /\ call.ret.v = 0)

\* What the program does achieve: the computation fails exactly on the
\* states whose child height is 0, and on every other state it returns the
\* median of the timestamps in the window.
MedianFailsOnlyAtChildHeightZero ==
    call.op = "medianTimestamp" => (call.ret.panic <=> childHeight(st) = 0)

(***************************************************************************)
(* BlockReward over every height of the word                               *)
(***************************************************************************)
NoConn ==
    /\ conn = <<>>
    /\ closed = FALSE
    /\ wlog = <<>>
    /\ rlog = <<>>
    /\ NoHashing

\* the coinbase parameters of a network: the usual case, a network whose
\* minimum is zero, and a network that starts below its minimum
Coinbases == {<<100, 30>>, <<100, 0>>, <<20, 30>>}

RewardInit ==
    /\ NoConn
    /\ net \in {[BaseNetwork EXCEPT !.InitialCoinbase = c[1],
                                    !.MinimumCoinbase = c[2]] : c \in Coinbases}
    /\ st \in {StateAt(net, h) : h \in 0..(U64 - 1)}
    /\ call = NoCall

CallBlockReward ==
    /\ call.op = "none"
    /\ call' = [op |-> "BlockReward", ret |-> BlockReward(net, st)]
    /\ UNCHANGED <<conn, closed, wlog, rlog, net, st, pool, running>>

RewardNext == CallBlockReward

SpecReward == RewardInit /\ [][RewardNext]_vars

\* InitialCoinbase minus h siacoins, clamped to MinimumCoinbase
ClampedReward(n, h) ==
    IF n.InitialCoinbase < Siacoins(h)
         \/ n.InitialCoinbase - Siacoins(h) < n.MinimumCoinbase
    THEN n.MinimumCoinbase
    ELSE n.InitialCoinbase - Siacoins(h)

\* C6: for every state, over the whole range of child heights, BlockReward is
\* InitialCoinbase minus childHeight siacoins when that difference does not
\* underflow and is at least MinimumCoinbase, and MinimumCoinbase otherwise;
\* so the reward of a state is never above the reward of its parent state.
C6_RewardIsClampedDifference ==
    call.op = "BlockReward" =>
        /\ call.ret = ClampedReward(net, childHeight(st))
        /\ childHeight(st) > 0 =>
               call.ret <= BlockReward(net, StateAt(net, (st.Index.Height + U64 - 1) % U64))

\* What the program does achieve: the closed form holds while the child
\* height fits the 32-bit conversion.
RewardIsClampedDifferenceBelowUint32 ==
    (call.op = "BlockReward" /\ childHeight(st) = Uint32(childHeight(st))) =>
        call.ret = ClampedReward(net, childHeight(st))

(***************************************************************************)
(* FoundationSubsidy over every height of the word                         *)
(***************************************************************************)
\* hardfork heights: the genesis block, early, mid-chain, and the last height
FoundationHeights == {0, 300, 12000, U64 - 1}

\* the primary address is part of the state: a foundation update changes it
Addresses == {1, 3}

SubsidyInit ==
    /\ NoConn
    /\ net \in {[BaseNetwork EXCEPT !.HardforkFoundation.Height = f,
                                    !.HardforkV2.AllowHeight = Max(f, 11),
                                    !.HardforkV2.RequireHeight = Max(f, 13)] :
                    f \in FoundationHeights}
    /\ st \in {[StateAt(net, h) EXCEPT !.FoundationPrimaryAddress = a] :
                   h \in 0..(U64 - 1), a \in Addresses}
    /\ call = NoCall

CallFoundationSubsidy ==
    /\ call.op = "none"
    /\ call' = [op |-> "FoundationSubsidy", ret |-> FoundationSubsidy(net, st)]
    /\ UNCHANGED <<conn, closed, wlog, rlog, net, st, pool, running>>

SubsidyNext == CallFoundationSubsidy

SpecSubsidy == SubsidyInit /\ [][SubsidyNext]_vars

\* C7: the subsidy is zero below the Foundation hardfork height, 30000 x 52560
\* siacoins at the hardfork height, 30000 x 4380 siacoins at every later
\* height whose distance from the hardfork height is a multiple of 4380, and
\* zero at every other height; it is paid to the state's primary address.
C7_SubsidySchedule ==
    call.op = "FoundationSubsidy" =>
        LET c == childHeight(st)
            h == net.HardforkFoundation.Height
        IN  /\ call.ret.Address = st.FoundationPrimaryAddress
            /\ c < h => call.ret.Value = 0
            /\ c = h => call.ret.Value = Siacoins(30000) * 52560
            /\ (c > h /\ (c - h) % 4380 = 0) =>
                   call.ret.Value = Siacoins(30000) * 4380
            /\ (c > h /\ (c - h) % 4380 # 0) => call.ret.Value = 0

\* the first-year payment at the hardfork height has been computed, for a
\* state whose primary address is not the network's
C7_Witness ==
    /\ call.op = "FoundationSubsidy"
    /\ childHeight(st) = net.HardforkFoundation.Height
    /\ childHeight(st) > 0
    /\ st.FoundationPrimaryAddress # net.HardforkFoundation.PrimaryAddress
    /\ call.ret.Value = 1576800000
    /\ call.ret.Address = st.FoundationPrimaryAddress

(***************************************************************************)
(* Contract taxes.  A Currency is a 128-bit number held as two words, Lo    *)
(* and Hi; the words here are the words of the heights, U64 wide.  An       *)
(* amount of a contract is counted in the smallest unit.                    *)
(***************************************************************************)
NewCurrency(lo, hi) == [Lo |-> lo, Hi |-> hi]

NewCurrency64(lo) == NewCurrency(lo, 0)

\* Currency.Big: the number a Currency holds
Big(c) == c.Hi * U64 + c.Lo

\* Currency.Add: panics when the sum does not fit
CurrencyAdd(a, b) ==
    LET lo == a.Lo + b.Lo
        hi == a.Hi + b.Hi + (lo \div U64)
    IN  [panic |-> hi >= U64, v |-> NewCurrency(lo % U64, hi % U64)]

\* Currency.Sub: panics when b is above a
CurrencySub(a, b) ==
    LET borrow == IF a.Lo < b.Lo THEN 1 ELSE 0
    IN  [panic |-> a.Hi < b.Hi + borrow,
         v |-> NewCurrency((a.Lo + U64 - b.Lo) % U64,
                           (a.Hi + U64 - b.Hi - borrow) % U64)]

\* bits.Div64: the quotient and remainder of the two-word number (hi, lo)
\* by y; panics when y is zero or the quotient does not fit a word (y <= hi)
Div64(hi, lo, y) ==
    IF y = 0 \/ y <= hi THEN [panic |-> TRUE, q |-> 0, r |-> 0]
    ELSE [panic |-> FALSE, q |-> (hi * U64 + lo) \div y, r |-> (hi * U64 + lo) % y]

\* Currency.Div64: the quotient by a word, the high word divided first and
\* its remainder carried into the division of the low word
CurrencyDiv64(c, v) ==
    IF c.Hi < v THEN NewCurrency(Div64(c.Hi, c.Lo, v).q, 0)
    ELSE NewCurrency(Div64(Div64(0, c.Hi, v).r, c.Lo, v).q, Div64(0, c.Hi, v).q)

\* the width of a float64 mantissa
MantissaBits == 10

\* new(big.Rat).SetFloat64(0.039): the float nearest to 0.039, as a fraction;
\* 0.039 lies between 2^-5 and 2^-4, so its last mantissa bit weighs
\* 2^-(MantissaBits + 4)
Float0039 ==
    LET den == 2 ^ (MantissaBits + 4)
    IN  [Num |-> (39 * den + 500) \div 1000, Denom |-> den]

\* floor(i * num / den) of big integers, the product split so that no
\* intermediate value leaves 32 bits
MulDiv(i, num, den) == (i \div den) * num + ((i % den) * num) \div den

\* FileContractTax: the payout times the tax rate, rounded down to a multiple
\* of SiafundCount, converted back to two words
FileContractTax(n, s, fc) ==
    LET i == Big(fc.Payout)
        taxed == IF childHeight(s) < n.HardforkTax.Height
                 THEN MulDiv(i, Float0039.Num, Float0039.Denom)
                 ELSE MulDiv(i, 39, 1000)
        rounded == taxed - (taxed % SiafundCount)
        lo == rounded % U64
        hi == (rounded \div U64) % U64
    IN  NewCurrency(lo, hi)

\* a rounding that divides the low word alone
V2FileContractTaxLowWordOnly(s, fc) ==
    LET sum == CurrencyAdd(fc.RenterOutput.Value, fc.HostOutput.Value)
        tax == CurrencyDiv64(sum.v, 25)
        d == Div64(0, tax.Lo, SiafundCount)
        ret == CurrencySub(tax, NewCurrency64(d.r))
    IN  [panic |-> sum.panic \/ d.panic \/ ret.panic, v |-> ret.v]

\* V2FileContractTax: a 25th of the two outputs, rounded down to a multiple of
\* SiafundCount by two word divisions
V2FileContractTax(s, fc) ==
    LET sum == CurrencyAdd(fc.RenterOutput.Value, fc.HostOutput.Value)
        tax == CurrencyDiv64(sum.v, 25)
        d1 == Div64(0, tax.Hi, SiafundCount)
        d2 == Div64(d1.r, tax.Lo, SiafundCount)
        ret == CurrencySub(tax, NewCurrency64(d2.r))
    IN  IF sum.panic THEN [panic |-> TRUE, v |-> NewCurrency64(0)]
        ELSE [panic |-> d1.panic \/ d2.panic \/ ret.panic, v |-> ret.v]

\* the words of the sample amounts
Limbs == {0, 1, 100, 9999, 10000, U64 - 1}

Currencies == {NewCurrency(lo, hi) : lo \in Limbs, hi \in Limbs}

\* the heights around the tax hardfork, and the genesis state's
TaxHeights(n) ==
    {U64 - 1} \cup {h \in 0..(U64 - 1) :
                        h + 3 >= n.HardforkTax.Height /\ h <= n.HardforkTax.Height + 1}

TaxInit ==
    /\ NoConn
    /\ net = BaseNetwork
    /\ st \in {StateAt(net, h) : h \in TaxHeights(net)}
    /\ call = NoCall

CallFileContractTax ==
    /\ call.op = "none"
    /\ \E payout \in Currencies :
           LET fc == [Payout |-> payout]
           IN  call' = [op |-> "FileContractTax", fc |-> fc,
                        ret |-> FileContractTax(net, st, fc)]
    /\ UNCHANGED <<conn, closed, wlog, rlog, net, st, pool, running>>

CallV2FileContractTax ==
    /\ call.op = "none"
    /\ \E renter \in Currencies, host \in Currencies :
           LET fc == [RenterOutput |-> [Value |-> renter],
                      HostOutput |-> [Value |-> host]]
           IN  call' = [op |-> "V2FileContractTax", fc |-> fc,
                        ret |-> V2FileContractTax(st, fc)]
    /\ UNCHANGED <<conn, closed, wlog, rlog, net, st, pool, running>>

TaxNext == CallFileContractTax \/ CallV2FileContractTax

SpecTax == TaxInit /\ [][TaxNext]_vars

\* renter + host of a v2 contract, when it fits a Currency
FitsCurrency(fc) ==
    fc.RenterOutput.Value.Hi + fc.HostOutput.Value.Hi
        + ((fc.RenterOutput.Value.Lo + fc.HostOutput.Value.Lo) \div U64) < U64

\* C10: FileContractTax is a multiple of SiafundCount = 10000 for every
\* payout, before and from the tax hardfork; for a v2 contract whose outputs'
\* sum fits a Currency, V2FileContractTax is a multiple of 10000 and is
\* floor((renter + host) / 25) rounded down to that multiple; renter = host =
\* 100 gives 0.
C10_TaxDivisibility ==
    /\ call.op = "FileContractTax" => Big(call.ret) % 10000 = 0
    /\ (call.op = "V2FileContractTax" /\ FitsCurrency(call.fc)) =>
           LET sum == Big(call.fc.RenterOutput.Value) + Big(call.fc.HostOutput.Value)
               tax == sum \div 25
           IN  /\ ~call.ret.panic
               /\ Big(call.ret.v) % 10000 = 0
               /\ Big(call.ret.v) = tax - (tax % 10000)
               /\ sum = 200 => Big(call.ret.v) = 0

\* a v2 tax whose high word is not zero and whose rounding removed something
C10_Witness ==
    /\ call.op = "V2FileContractTax"
    /\ FitsCurrency(call.fc)
    /\ ~call.ret.panic
    /\ call.ret.v.Hi > 0
    /\ ((Big(call.fc.RenterOutput.Value) + Big(call.fc.HostOutput.Value)) \div 25)
           % 10000 # 0
    /\ Big(call.ret.v) % 10000 = 0

(***************************************************************************)
(* The hardfork-gated derivations, each evaluated on two states of one     *)
(* network                                                                 *)
(***************************************************************************)
\* a network whose hardforks are far apart: a month of blocks fits between
\* the Foundation hardfork and the next one
WideNetwork ==
    [BaseNetwork EXCEPT !.HardforkDevAddr.Height = 5,
                        !.HardforkTax.Height = 10,
                        !.HardforkStorageProof.Height = 15,
                        !.HardforkOak = [Height |-> 17, FixHeight |-> 18],
                        !.HardforkASIC.Height = 20,
                        !.HardforkFoundation.Height = 100,
                        !.HardforkV2 = [AllowHeight |-> 5000, RequireHeight |-> 6000]]

\* every hardfork height of a network
Forks(n) ==
    {n.HardforkDevAddr.Height, n.HardforkTax.Height, n.HardforkStorageProof.Height,
     n.HardforkOak.Height, n.HardforkOak.FixHeight, n.HardforkASIC.Height,
     n.HardforkFoundation.Height, n.HardforkV2.AllowHeight,
     n.HardforkV2.RequireHeight}

\* the heights next to a hardfork height, to a monthly payment, to the first
\* block and to the genesis state
ForkHeights(n) ==
    LET marks == Forks(n) \cup {1, U64, n.HardforkFoundation.Height + blocksPerMonth}
    IN  {h \in UNION {{f - 2, f - 1, f, f + 1} : f \in marks} : 0 <= h /\ h < U64}

Payouts == {NewCurrency(0, 100), NewCurrency(9999, 1)}

ForkInit ==
    /\ NoConn
    /\ net \in {BaseNetwork, WideNetwork}
    /\ st \in {StateAt(net, h) : h \in ForkHeights(net)}
    /\ call = NoCall

\* a derivation may be evaluated once, and once more on another state with
\* the same arguments
MayEvaluate(op, fc) ==
    \/ call.op = "none"
    \/ call.op = op /\ call.fc = fc /\ call.prev = Nil /\ call.s # st

\* the record of an evaluation on the current state; the evaluation before it
\* is kept
Evaluation(op, fc, ret) ==
    [op |-> op, fc |-> fc, s |-> st, ret |-> ret,
     prev |-> IF call.op = "none" THEN Nil ELSE [s |-> call.s, ret |-> call.ret]]

CallNonceFactor ==
    /\ MayEvaluate("NonceFactor", Nil)
    /\ call' = Evaluation("NonceFactor", Nil, NonceFactor(net, st))
    /\ UNCHANGED <<conn, closed, wlog, rlog, net, st, pool, running>>

CallReplayPrefix ==
    /\ MayEvaluate("replayPrefix", Nil)
    /\ call' = Evaluation("replayPrefix", Nil, replayPrefix(net, st))
    /\ UNCHANGED <<conn, closed, wlog, rlog, net, st, pool, running>>

CallSubsidy ==
    /\ MayEvaluate("FoundationSubsidy", Nil)
    /\ call' = Evaluation("FoundationSubsidy", Nil, FoundationSubsidy(net, st))
    /\ UNCHANGED <<conn, closed, wlog, rlog, net, st, pool, running>>

CallTax ==
    \E payout \in Payouts :
        /\ MayEvaluate("FileContractTax", [Payout |-> payout])
        /\ call' = Evaluation("FileContractTax", [Payout |-> payout],
                              FileContractTax(net, st, [Payout |-> payout]))
        /\ UNCHANGED <<conn, closed, wlog, rlog, net, st, pool, running>>

\* the chain reaches another height: blocks are applied or reverted
ReachHeight ==
    /\ call.op # "none"
    /\ call.prev = Nil
    /\ call.s = st
    /\ \E h \in ForkHeights(net) \ {st.Index.Height} : st' = StateAt(net, h)
    /\ UNCHANGED <<conn, closed, wlog, rlog, net, call, pool, running>>

ForkNext ==
    \/ CallNonceFactor
    \/ CallReplayPrefix
    \/ CallSubsidy
    \/ CallTax
    \/ ReachHeight

SpecFork == ForkInit /\ [][ForkNext]_vars

\* two heights with no hardfork height between them
SameInterval(n, a, b) == \A f \in Forks(n) : (a < f) <=> (b < f)

\* a derivation has been evaluated on two states
Twice(op) == call.op = op /\ call.prev # Nil

\* C8: each of NonceFactor, replayPrefix, FoundationSubsidy and
\* FileContractTax returns the same value on every two states whose heights
\* lie in one interval between adjacent hardfork heights.  The height of a
\* state is read here in the claim's favour: both the states' own heights and
\* their child heights lie in one interval.
C8_ConstantBetweenHardforks ==
    (/\ call.op # "none"
     /\ call.prev # Nil
     /\ SameInterval(net, call.s.Index.Height, call.prev.s.Index.Height)
     /\ SameInterval(net, childHeight(call.s), childHeight(call.prev.s)))
        => call.ret = call.prev.ret

\* C8, as the program has it: NonceFactor and FileContractTax return the same
\* value on two states whose child heights lie in one interval, replayPrefix
\* on two states whose own heights lie in one interval; FoundationSubsidy
\* returns the same value on two states whose child heights are both below
\* the Foundation hardfork height, or both above it at the same distance
\* modulo 4380 from it.
C8_ConstantBetweenHardforksButSubsidy ==
    /\ (Twice("NonceFactor") \/ Twice("FileContractTax")) =>
           (SameInterval(net, childHeight(call.s), childHeight(call.prev.s))
                => call.ret = call.prev.ret)
    /\ Twice("replayPrefix") =>
           (SameInterval(net, call.s.Index.Height, call.prev.s.Index.Height)
                => call.ret = call.prev.ret)
    /\ Twice("FoundationSubsidy") =>
           LET f == net.HardforkFoundation.Height
               a == childHeight(call.s)
               b == childHeight(call.prev.s)
           IN  /\ (a < f /\ b < f) => call.ret = call.prev.ret
               /\ (a > f /\ b > f /\ (a - f) % 4380 = (b - f) % 4380)
                      => call.ret = call.prev.ret

\* replayPrefix has been evaluated on two states whose own heights lie in one
\* interval and whose child heights do not, and NonceFactor's case likewise
C8_Witness ==
    /\ Twice("replayPrefix")
    /\ SameInterval(net, call.s.Index.Height, call.prev.s.Index.Height)
    /\ ~SameInterval(net, childHeight(call.s), childHeight(call.prev.s))
    /\ call.s.Index.Height + 1 = net.HardforkFoundation.Height
    /\ call.ret = <<0>>
    /\ call.prev.ret = <<0>>

(***************************************************************************)
(* StorageProofLeafIndex.  The seed is the hash of the window id and the   *)
(* contract id: any value of its length.  It is held as the words          *)
(* binary.BigEndian.Uint64 reads from it, first word first.                *)
(***************************************************************************)
\* len(types.StorageProof{}.Leaf)
leafSize == 64

\* len(seed) / 8
SeedWords == 4

RECURSIVE FoldSeed(_, _, _, _)
\* the loop over the seed from its word i on, r the running remainder
FoldSeed(seed, i, r, numLeaves) ==
    IF i > Len(seed) THEN [panic |-> FALSE, v |-> r]
    ELSE LET d == Div64(r, seed[i], numLeaves)
         IN  IF d.panic THEN [panic |-> TRUE, v |-> 0]
             ELSE FoldSeed(seed, i + 1, d.r, numLeaves)

RECURSIVE Reverse(_)
Reverse(q) == IF q = <<>> THEN <<>> ELSE Append(Reverse(Tail(q)), Head(q))

\* a fold that takes the last word of the seed first
StorageProofLeafIndexLastWordFirst(s, filesize, seed) ==
    LET numLeaves == (filesize \div leafSize)
                         + (IF filesize % leafSize # 0 THEN 1 ELSE 0)
    IN  IF numLeaves = 0 THEN [panic |-> FALSE, v |-> 0]
        ELSE FoldSeed(Reverse(seed), 1, 0, numLeaves)

StorageProofLeafIndex(s, filesize, seed) ==
    LET numLeaves == (filesize \div leafSize)
                         + (IF filesize % leafSize # 0 THEN 1 ELSE 0)
    IN  IF numLeaves = 0 THEN [panic |-> FALSE, v |-> 0]
        ELSE FoldSeed(seed, 1, 0, numLeaves)

\* file sizes at, just above and just below every multiple of the leaf size
Filesizes == {f \in 0..(U64 - 1) : f % leafSize \in {0, 1, leafSize - 1}}

SeedWordValues == {0, 1, (U64 \div 2) + 1, U64 - 1}

Seeds == [1..SeedWords -> SeedWordValues]

LeafInit ==
    /\ NoConn
    /\ net = BaseNetwork
    /\ st = GenesisState(net)
    /\ call = NoCall

CallStorageProofLeafIndex ==
    /\ call.op = "none"
    /\ \E filesize \in Filesizes, seed \in Seeds :
           call' = [op |-> "StorageProofLeafIndex", filesize |-> filesize,
                    seed |-> seed,
                    ret |-> StorageProofLeafIndex(st, filesize, seed)]
    /\ UNCHANGED <<conn, closed, wlog, rlog, net, st, pool, running>>

LeafNext == CallStorageProofLeafIndex

SpecLeaf == LeafInit /\ [][LeafNext]_vars

RECURSIVE PowMod(_, _, _)
\* b^e modulo n
PowMod(b, e, n) == IF e = 0 THEN 1 % n ELSE ((b % n) * PowMod(b, e - 1, n)) % n

RECURSIVE PlaceValueSum(_, _, _)
\* the sum, modulo n, of the words of the seed from word i on, each times the
\* weight U64^(number of words after it)
PlaceValueSum(seed, i, n) ==
    IF i > Len(seed) THEN 0
    ELSE ((((seed[i] % n) * PowMod(U64, Len(seed) - i, n)) % n)
             + PlaceValueSum(seed, i + 1, n)) % n

\* the seed, read as one big-endian integer, modulo n
SeedModulo(seed, n) == PlaceValueSum(seed, 1, n)

\* ceil(filesize / 64)
CeilLeaves(filesize) == (filesize + 63) \div 64

\* C9: StorageProofLeafIndex returns 0 when filesize is 0; otherwise it
\* returns the seed, read as one big-endian integer, modulo numLeaves =
\* ceil(filesize / 64); the division fold never fails and the result is below
\* numLeaves, for every filesize and every seed.
C9_LeafIndexIsSeedModLeaves ==
    call.op = "StorageProofLeafIndex" =>
        /\ ~call.ret.panic
        /\ call.filesize = 0 => call.ret.v = 0
        /\ call.filesize > 0 =>
               /\ call.ret.v = SeedModulo(call.seed, CeilLeaves(call.filesize))
               /\ call.ret.v < CeilLeaves(call.filesize)

\* an index that depends on every word of the seed: the number of leaves does
\* not divide the word base, and the index is neither 0 nor the last word's
\* remainder
C9_Witness ==
    /\ call.op = "StorageProofLeafIndex"
    /\ call.filesize % 64 = 1
    /\ U64 % CeilLeaves(call.filesize) # 0
    /\ ~call.ret.panic
    /\ call.ret.v > 0
    /\ call.ret.v # call.seed[SeedWords] % CeilLeaves(call.filesize)

(***************************************************************************)
(* Network.GenesisState over the initial targets of a network              *)
(***************************************************************************)
GenesisInit ==
    /\ NoConn
    /\ net \in {[BaseNetwork EXCEPT !.InitialTarget = t] : t \in 0..MaxTarget}
    /\ st = GenesisState(net)
    /\ call = NoCall

CallGenesisState ==
    /\ call.op = "none"
    /\ call' = [op |-> "GenesisState", ret |-> GenesisState(net)]
    /\ UNCHANGED <<conn, closed, wlog, rlog, net, st, pool, running>>

GenesisNext == CallGenesisState

SpecGenesis == GenesisInit /\ [][GenesisNext]_vars

\* C14: in the state Network.GenesisState returns, Depth and ChildTarget both
\* equal the network's InitialTarget.
C14_GenesisTargetsAreInitialTarget ==
    call.op = "GenesisState" =>
        /\ call.ret.Depth = net.InitialTarget
        /\ call.ret.ChildTarget = net.InitialTarget

\* What the program does achieve: ChildTarget is the InitialTarget, and Depth
\* is the maximum target whatever the network.
GenesisDepthIsMaxTarget ==
    call.op = "GenesisState" =>
        /\ call.ret.Depth = MaxTarget
        /\ call.ret.ChildTarget = net.InitialTarget

(***************************************************************************)
(* The chain of states from the genesis state on: the replay prefix and    *)
(* the nonce factor of each state in turn                                  *)
(***************************************************************************)
\* the chain is followed up to this height
MaxChainHeight == 9

\* networks with 0 < ASIC height <= Foundation height <= V2 allow height, all
\* reached by the chain
ChainNetworks ==
    {[BaseNetwork EXCEPT !.HardforkASIC.Height = a,
                         !.HardforkFoundation.Height = a + f,
                         !.HardforkV2 = [AllowHeight |-> a + f + v,
                                         RequireHeight |-> a + f + v + 2]] :
         a \in 1..3, f \in 0..2, v \in 0..2}

ChainInit ==
    /\ NoConn
    /\ net \in ChainNetworks
    /\ st = GenesisState(net)
    /\ call = NoCall

\* the prefix and the nonce factor of the current state are computed; the
\* prefix of the state before it is kept
DeriveOnChain ==
    /\ IF call.op = "none" THEN TRUE ELSE call.s # st
    /\ call' = [op |-> "onChain", s |-> st,
                prefix |-> replayPrefix(net, st),
                nonceFactor |-> NonceFactor(net, st),
                before |-> IF call.op = "none" THEN Nil
                           ELSE [prefix |-> call.prefix]]
    /\ UNCHANGED <<conn, closed, wlog, rlog, net, st, pool, running>>

\* a block is applied: the child state follows
ApplyBlock ==
    /\ call.op = "onChain"
    /\ call.s = st
    /\ childHeight(st) <= MaxChainHeight
    /\ st' = StateAt(net, childHeight(st))
    /\ UNCHANGED <<conn, closed, wlog, rlog, net, call, pool, running>>

ChainNext == DeriveOnChain \/ ApplyBlock

SpecChain == ChainInit /\ [][ChainNext]_vars

\* the place of a prefix in the order empty, {0x00}, {0x01}, {0x02}
PrefixRank(p) == IF p = <<>> THEN 0 ELSE p[1] + 1

\* C15: along the chain from the genesis state, the replay prefix advances
\* in the order empty, {0x00}, {0x01}, {0x02} and never returns to an earlier
\* value; the genesis state yields the empty prefix; NonceFactor is 1009
\* exactly in the states whose replay prefix is not empty.
C15_PrefixOnlyAdvances ==
    call.op = "onChain" =>
        /\ call.s = GenesisState(net) => call.prefix = <<>>
        /\ call.before # Nil =>
               PrefixRank(call.before.prefix) <= PrefixRank(call.prefix)
        /\ (call.nonceFactor = 1009) <=> (call.prefix # <<>>)

\* What the program does achieve: from the state of height 0 on the prefix
\* only advances, and a state's nonce factor is 1009 exactly when its child's
\* prefix is not empty.
PrefixOnlyAdvancesAfterGenesis ==
    (call.op = "onChain" /\ call.s # GenesisState(net)) =>
        /\ (call.before # Nil /\ call.s.Index.Height > 0) =>
               PrefixRank(call.before.prefix) <= PrefixRank(call.prefix)
        /\ (call.nonceFactor = 1009)
               <=> (replayPrefix(net, StateAt(net, childHeight(call.s))) # <<>>)

(***************************************************************************)
(* types.Hasher and the hashing operations of a State.  A hasher holds     *)
(* what was written to it since its last Reset; Sum is the hash of that.   *)
(* The hash is taken as injective: a hash is the record of its pre-image,  *)
(* and where a hash is written into another pre-image it is one item.      *)
(***************************************************************************)
\* Hasher.Sum
HasherSum(buf) == [sum |-> buf]

\* blake2b.Accumulator.Root: the Merkle root of the leaves added, in order
AccumulatorRoot(leaves) == [root |-> leaves]

WriteUint8(n) == <<n>>

Hash256EncodeTo(h) == <<h>>

AddressEncodeTo(a) == <<[address |-> a]>>

\* Currency.EncodeTo: its two words
CurrencyEncodeTo(c) == WriteUint64(c.Lo) \o WriteUint64(c.Hi)

RECURSIVE Concat(_)
\* the encodings of the items of a list, one after the other
Concat(parts) == IF parts = <<>> THEN <<>> ELSE Head(parts) \o Concat(Tail(parts))

\* State.EncodeTo: the fields in their order
StateEncodeTo(s) ==
    WriteUint64(s.Index.Height)
        \o Concat([i \in 1..NumPrevTimestamps |-> WriteUint64(s.PrevTimestamps[i])])
        \o <<[target |-> s.Depth]>>
        \o <<[target |-> s.ChildTarget]>>
        \o WriteUint64(s.SiafundPool) \o WriteUint64(0)
        \o WriteUint64(s.OakTime)
        \o <<[target |-> s.OakTarget]>>
        \o AddressEncodeTo(s.FoundationPrimaryAddress)
        \o AddressEncodeTo(s.FoundationFailsafeAddress)

v2ReplayPrefix(s) == 2

\* "sia/commitment|"
CommitmentTag ==
    <<115, 105, 97, 47, 99, 111, 109, 109, 105, 116, 109, 101, 110, 116,
      124>>

\* "sia/id/transaction|"
TransactionIDTag ==
    <<115, 105, 97, 47, 105, 100, 47, 116, 114, 97, 110, 115, 97, 99, 116,
      105, 111, 110, 124>>

\* "sia/sig/filecontract|"
FileContractTag ==
    <<115, 105, 97, 47, 115, 105, 103, 47, 102, 105, 108, 101, 99, 111,
      110, 116, 114, 97, 99, 116, 124>>

\* "sia/sig/filecontractrenewal|"
FileContractRenewalTag ==
    <<115, 105, 97, 47, 115, 105, 103, 47, 102, 105, 108, 101, 99, 111,
      110, 116, 114, 97, 99, 116, 114, 101, 110, 101, 119, 97, 108, 124>>

\* "sia/sig/attestation|"
AttestationTag ==
    <<115, 105, 97, 47, 115, 105, 103, 47, 97, 116, 116, 101, 115, 116, 97,
      116, 105, 111, 110, 124>>

\* a v1 transaction: siacoin inputs, arbitrary data and signatures; its other
\* collections are empty
SiacoinInputEncodeTo(in) == <<[parent |-> in.ParentID]>>

SignatureEncodeTo(sig) == <<[signature |-> sig]>>

TransactionEncodeTo(txn) ==
    WritePrefix(Len(txn.SiacoinInputs))
        \o Concat([i \in 1..Len(txn.SiacoinInputs) |->
                      SiacoinInputEncodeTo(txn.SiacoinInputs[i])])
        \o WritePrefix(Len(txn.ArbitraryData))
        \o Concat([i \in 1..Len(txn.ArbitraryData) |-> WriteBytes(txn.ArbitraryData[i])])
        \o WritePrefix(Len(txn.Signatures))
        \o Concat([i \in 1..Len(txn.Signatures) |-> SignatureEncodeTo(txn.Signatures[i])])

\* a v2 transaction: siacoin inputs, arbitrary data, an optional new
\* foundation address and the miner fee; its other collections are empty
V2SiacoinInputEncodeTo(in) ==
    <<[parent |-> in.Parent.ID]>> \o SignatureEncodeTo(in.Signature)

V2TransactionEncodeTo(txn) ==
    WritePrefix(Len(txn.SiacoinInputs))
        \o Concat([i \in 1..Len(txn.SiacoinInputs) |->
                      V2SiacoinInputEncodeTo(txn.SiacoinInputs[i])])
        \o WriteBytes(txn.ArbitraryData)
        \o WriteBool(txn.NewFoundationAddress # Nil)
        \o (IF txn.NewFoundationAddress # Nil
            THEN AddressEncodeTo(txn.NewFoundationAddress.ptr) ELSE <<>>)
        \o CurrencyEncodeTo(txn.MinerFee)

SiacoinOutputEncodeTo(out) == CurrencyEncodeTo(out.Value) \o AddressEncodeTo(out.Address)

\* the fields of a v2 contract that ContractSigHash covers
V2FileContractEncodeTo(fc) ==
    WriteUint64(fc.Filesize)
        \o Hash256EncodeTo(fc.FileMerkleRoot)
        \o WriteUint64(fc.ProofHeight)
        \o WriteUint64(fc.ExpirationHeight)
        \o SiacoinOutputEncodeTo(fc.RenterOutput)
        \o SiacoinOutputEncodeTo(fc.HostOutput)
        \o CurrencyEncodeTo(fc.MissedHostValue)
        \o <<[key |-> fc.RenterPublicKey]>>
        \o <<[key |-> fc.HostPublicKey]>>
        \o WriteUint64(fc.RevisionNumber)

(***************************************************************************)
(* A hashing operation is the sequence of its statements on the hasher:    *)
(*   Get       h := hasherPool.Get(); defer hasherPool.Put(h)              *)
(*   Reset     h.Reset()                                                   *)
(*   Write     writes to h.E                                               *)
(*   SumState  stateHash := h.Sum()                                        *)
(*   AddLeaf   acc.AddLeaf(h.Sum())                                        *)
(*   WriteCommit  stateHash, minerAddr and acc.Root() written to h.E       *)
(*   Panic     an index out of range: the deferred Put runs next           *)
(*   Return    return h.Sum()                                              *)
(*   Put       the deferred hasherPool.Put(h)                              *)
(***************************************************************************)
IGet == [i |-> "Get"]

IReset == [i |-> "Reset"]

IWrite(b) == [i |-> "Write", b |-> b]

ISumState == [i |-> "SumState"]

IAddLeaf == [i |-> "AddLeaf"]

IWriteCommit(minerAddr) == [i |-> "WriteCommit", minerAddr |-> minerAddr]

IPanic == [i |-> "Panic"]

IReturn == [i |-> "Return"]

IPut == [i |-> "Put"]

RECURSIVE Covered(_, _)
\* for _, i := range indices { items[i].EncodeTo(h.E) }, given the encodings
\* of the items: one write per index, a panic at the first index out of range
Covered(indices, encoded) ==
    IF indices = <<>> THEN <<>>
    ELSE IF Head(indices) >= Len(encoded) THEN <<IPanic>>
    ELSE <<IWrite(encoded[Head(indices) + 1])>> \o Covered(Tail(indices), encoded)

WholeSigHash(n, s, txn, parentID, pubkeyIndex, timelock, coveredSigs) ==
    <<IGet, IReset,
      IWrite(WritePrefix(Len(txn.SiacoinInputs))
                 \o Concat([i \in 1..Len(txn.SiacoinInputs) |->
                               replayPrefix(n, s)
                                   \o SiacoinInputEncodeTo(txn.SiacoinInputs[i])])
                 \o WritePrefix(0) \o WritePrefix(0) \o WritePrefix(0)
                 \o WritePrefix(0) \o WritePrefix(0) \o WritePrefix(0)
                 \o WritePrefix(0)
                 \o WritePrefix(Len(txn.ArbitraryData))
                 \o Concat([i \in 1..Len(txn.ArbitraryData) |->
                               WriteBytes(txn.ArbitraryData[i])])),
      IWrite(Hash256EncodeTo(parentID) \o WriteUint64(pubkeyIndex)
                 \o WriteUint64(timelock))>>
        \o Covered(coveredSigs, [i \in 1..Len(txn.Signatures) |->
                                    SignatureEncodeTo(txn.Signatures[i])])
        \o <<IReturn, IPut>>

PartialSigHash(n, s, txn, cf) ==
    <<IGet, IReset>>
        \o Covered(cf.SiacoinInputs,
                   [i \in 1..Len(txn.SiacoinInputs) |->
                       replayPrefix(n, s) \o SiacoinInputEncodeTo(txn.SiacoinInputs[i])])
        \o Covered(cf.ArbitraryData,
                   [i \in 1..Len(txn.ArbitraryData) |-> WriteBytes(txn.ArbitraryData[i])])
        \o Covered(cf.Signatures,
                   [i \in 1..Len(txn.Signatures) |-> SignatureEncodeTo(txn.Signatures[i])])
        \o <<IReturn, IPut>>

\* a Commitment that does not reset the hasher before each transaction
CommitmentWithoutLeafReset(s, minerAddr, txns, v2txns) ==
    <<IGet, IReset, IWrite(StateEncodeTo(s)), ISumState>>
        \o Concat([i \in 1..Len(txns) |->
                      <<IWrite(TransactionEncodeTo(txns[i])), IAddLeaf>>])
        \o Concat([i \in 1..Len(v2txns) |->
                      <<IWrite(V2TransactionEncodeTo(v2txns[i])), IAddLeaf>>])
        \o <<IReset, IWrite(WriteString(CommitmentTag)),
             IWrite(WriteUint8(v2ReplayPrefix(s))), IWriteCommit(minerAddr),
             IReturn, IPut>>

\* Commitment: the state, then one leaf per transaction, then the pre-image
\* of the commitment itself
Commitment(s, minerAddr, txns, v2txns) ==
    <<IGet, IReset, IWrite(StateEncodeTo(s)), ISumState>>
        \o Concat([i \in 1..Len(txns) |->
                      <<IReset, IWrite(TransactionEncodeTo(txns[i])), IAddLeaf>>])
        \o Concat([i \in 1..Len(v2txns) |->
                      <<IReset, IWrite(V2TransactionEncodeTo(v2txns[i])), IAddLeaf>>])
        \o <<IReset, IWrite(WriteString(CommitmentTag)),
             IWrite(WriteUint8(v2ReplayPrefix(s))), IWriteCommit(minerAddr),
             IReturn, IPut>>

InputSigHash(s, txn) ==
    <<IGet, IReset, IWrite(WriteString(TransactionIDTag)),
      IWrite(WriteUint8(v2ReplayPrefix(s))),
      IWrite(WritePrefix(Len(txn.SiacoinInputs))
                 \o Concat([i \in 1..Len(txn.SiacoinInputs) |->
                               <<[parent |-> txn.SiacoinInputs[i].Parent.ID]>>])
                 \o WritePrefix(0) \o WritePrefix(0) \o WritePrefix(0)
                 \o WritePrefix(0) \o WritePrefix(0) \o WritePrefix(0)
                 \o WriteBytes(txn.ArbitraryData)
                 \o WriteBool(txn.NewFoundationAddress # Nil)
                 \o (IF txn.NewFoundationAddress # Nil
                     THEN AddressEncodeTo(txn.NewFoundationAddress.ptr) ELSE <<>>)
                 \o CurrencyEncodeTo(txn.MinerFee)),
      IReturn, IPut>>

ContractSigHash(s, fc) ==
    <<IGet, IReset, IWrite(WriteString(FileContractTag)),
      IWrite(WriteUint8(v2ReplayPrefix(s))),
      IWrite(V2FileContractEncodeTo(fc)),
      IReturn, IPut>>

RenewalSigHash(s, fcr) ==
    <<IGet, IReset, IWrite(WriteString(FileContractRenewalTag)),
      IWrite(WriteUint8(v2ReplayPrefix(s))),
      IWrite(V2FileContractEncodeTo(fcr.FinalRevision)
                 \o V2FileContractEncodeTo(fcr.InitialRevision)
                 \o CurrencyEncodeTo(fcr.RenterRollover)
                 \o CurrencyEncodeTo(fcr.HostRollover)),
      IReturn, IPut>>

AttestationSigHash(s, a) ==
    <<IGet, IReset, IWrite(WriteString(AttestationTag)),
      IWrite(WriteUint8(v2ReplayPrefix(s))),
      IWrite(<<[key |-> a.PublicKey]>> \o WriteString(a.Key) \o WriteBytes(a.Value)),
      IReturn, IPut>>

\* a call that has not started: its statements, its position, the hasher it
\* holds (0: none) and what it has done so far
NewCall(op, code) ==
    [op |-> op, code |-> code, pc |-> 1, h |-> 0,
     reset |-> FALSE, early |-> FALSE,
     acc |-> <<>>, stateHash |-> Nil,
     ret |-> Nil, preimage |-> <<>>,
     gets |-> 0, puts |-> 0, panicked |-> FALSE]

Done(c) == c.pc > Len(c.code)

\* the statement a call is at
At(c) == IF Done(c) THEN "Done" ELSE c.code[c.pc].i

\* one statement on the hasher the call holds, whose contents are buf: the
\* call and the contents after it
Exec(c, buf) ==
    LET I == c.code[c.pc]
        next == [c EXCEPT !.pc = c.pc + 1]
    IN  CASE I.i = "Reset" ->
                [c |-> [next EXCEPT !.reset = TRUE], buf |-> <<>>]
          [] I.i = "Write" ->
                [c |-> [next EXCEPT !.early = c.early \/ ~c.reset],
                 buf |-> buf \o I.b]
          [] I.i = "SumState" ->
                [c |-> [next EXCEPT !.stateHash = HasherSum(buf)], buf |-> buf]
          [] I.i = "AddLeaf" ->
                [c |-> [next EXCEPT !.acc = Append(c.acc, HasherSum(buf))],
                 buf |-> buf]
          [] I.i = "WriteCommit" ->
                [c |-> [next EXCEPT !.early = c.early \/ ~c.reset],
                 buf |-> buf \o Hash256EncodeTo(c.stateHash)
                             \o AddressEncodeTo(I.minerAddr)
                             \o Hash256EncodeTo(AccumulatorRoot(c.acc))]
          [] I.i = "Panic" ->
                [c |-> [c EXCEPT !.pc = Len(c.code), !.panicked = TRUE],
                 buf |-> buf]
          [] I.i = "Return" ->
                [c |-> [next EXCEPT !.ret = HasherSum(buf), !.preimage = buf],
                 buf |-> buf]

RECURSIVE RunAlone(_, _)
\* a call run to its end with no other call about, on a hasher whose
\* contents are buf when the call gets it: the call at its end and the
\* contents it leaves
RunAlone(c, buf) ==
    IF Done(c) THEN [c |-> c, buf |-> buf]
    ELSE IF At(c) = "Get"
    THEN RunAlone([c EXCEPT !.pc = c.pc + 1, !.h = 1, !.gets = c.gets + 1], buf)
    ELSE IF At(c) = "Put"
    THEN RunAlone([c EXCEPT !.pc = c.pc + 1, !.h = 0, !.puts = c.puts + 1], buf)
    ELSE Bind(Exec(c, buf), LAMBDA r : RunAlone(r.c, r.buf))

Alone(op, code, prior) == RunAlone(NewCall(op, code), prior)

(***************************************************************************)
(* The hashing operations called one at a time, on a pooled hasher that    *)
(* earlier calls have left with some contents                              *)
(***************************************************************************)
\* the longest transaction list of a block
MaxCommitted == 2

Transactions ==
    {[SiacoinInputs |-> <<[ParentID |-> 1]>>, ArbitraryData |-> <<>>,
      Signatures |-> <<5>>],
     [SiacoinInputs |-> <<>>, ArbitraryData |-> <<<<9>>>>, Signatures |-> <<>>]}

V2Transactions ==
    {[SiacoinInputs |-> <<[Parent |-> [ID |-> 3], Signature |-> 6]>>,
      ArbitraryData |-> <<>>, NewFoundationAddress |-> Nil,
      MinerFee |-> NewCurrency64(1)],
     [SiacoinInputs |-> <<>>, ArbitraryData |-> <<4>>,
      NewFoundationAddress |-> [ptr |-> 3], MinerFee |-> NewCurrency64(0)]}

V2FileContracts ==
    {[Filesize |-> f, FileMerkleRoot |-> HasherSum(<<1>>), ProofHeight |-> 20,
      ExpirationHeight |-> 30,
      RenterOutput |-> [Value |-> NewCurrency64(100), Address |-> 4],
      HostOutput |-> [Value |-> NewCurrency64(100), Address |-> 5],
      MissedHostValue |-> NewCurrency64(50),
      RenterPublicKey |-> 1, HostPublicKey |-> 2, RevisionNumber |-> r] :
         f \in {0, 64}, r \in {0, 1}}

Attestations ==
    {[PublicKey |-> 1, Key |-> k, Value |-> v] : k \in {<<>>, <<104, 105>>},
                                                  v \in {<<>>, <<1, 2>>}}

\* the selectors of a partial signature hash, some with an index out of range
CoveredFieldsSets ==
    {[SiacoinInputs |-> i, ArbitraryData |-> a, Signatures |-> g] :
         i \in {<<>>, <<0>>, <<1>>}, a \in {<<>>, <<0>>}, g \in {<<>>, <<0>>, <<0, 1>>}}

\* what an earlier call may have left in the hasher
PriorContents == {<<>>, <<7, 7>>}

HashInit ==
    /\ conn = <<>>
    /\ closed = FALSE
    /\ wlog = <<>>
    /\ rlog = <<>>
    /\ net = BaseNetwork
    /\ st \in {GenesisState(net), StateAt(net, 7)}
    /\ call = NoCall
    /\ pool \in {[made |-> 1, free |-> {1}, buf |-> <<b>>] : b \in PriorContents}
    /\ running = <<>>

\* a call made while no other is in progress gets the pooled hasher, runs to
\* its end and puts the hasher back with what it wrote last
CallWholeSigHash ==
    /\ call.op = "none"
    /\ \E txn \in Transactions, coveredSigs \in {<<>>, <<0>>} :
       \E r \in {Alone("WholeSigHash",
                       WholeSigHash(net, st, txn, HasherSum(<<2>>), 0, 0, coveredSigs),
                       pool.buf[1])} :
           /\ call' = [op |-> "WholeSigHash",
                       args |-> [txn |-> txn, coveredSigs |-> coveredSigs],
                       run |-> r.c, prior |-> pool.buf[1]]
           /\ pool' = [pool EXCEPT !.buf[1] = r.buf]
    /\ UNCHANGED <<conn, closed, wlog, rlog, net, st, running>>

CallPartialSigHash ==
    /\ call.op = "none"
    /\ \E txn \in Transactions, cf \in CoveredFieldsSets :
       \E r \in {Alone("PartialSigHash", PartialSigHash(net, st, txn, cf),
                       pool.buf[1])} :
           /\ call' = [op |-> "PartialSigHash", args |-> [txn |-> txn, cf |-> cf],
                       run |-> r.c, prior |-> pool.buf[1]]
           /\ pool' = [pool EXCEPT !.buf[1] = r.buf]
    /\ UNCHANGED <<conn, closed, wlog, rlog, net, st, running>>

CallCommitment ==
    /\ call.op = "none"
    /\ \E minerAddr \in Addresses,
          txns \in SeqsUpTo(Transactions, MaxCommitted),
          v2txns \in SeqsUpTo(V2Transactions, MaxCommitted) :
       \E r \in {Alone("Commitment", Commitment(st, minerAddr, txns, v2txns),
                       pool.buf[1])} :
           /\ call' = [op |-> "Commitment",
                       args |-> [minerAddr |-> minerAddr, txns |-> txns,
                                 v2txns |-> v2txns],
                       run |-> r.c, prior |-> pool.buf[1]]
           /\ pool' = [pool EXCEPT !.buf[1] = r.buf]
    /\ UNCHANGED <<conn, closed, wlog, rlog, net, st, running>>

CallInputSigHash ==
    /\ call.op = "none"
    /\ \E txn \in V2Transactions :
       \E r \in {Alone("InputSigHash", InputSigHash(st, txn), pool.buf[1])} :
           /\ call' = [op |-> "InputSigHash", args |-> [txn |-> txn],
                       run |-> r.c, prior |-> pool.buf[1]]
           /\ pool' = [pool EXCEPT !.buf[1] = r.buf]
    /\ UNCHANGED <<conn, closed, wlog, rlog, net, st, running>>

CallContractSigHash ==
    /\ call.op = "none"
    /\ \E fc \in V2FileContracts :
       \E r \in {Alone("ContractSigHash", ContractSigHash(st, fc), pool.buf[1])} :
           /\ call' = [op |-> "ContractSigHash", args |-> [fc |-> fc],
                       run |-> r.c, prior |-> pool.buf[1]]
           /\ pool' = [pool EXCEPT !.buf[1] = r.buf]
    /\ UNCHANGED <<conn, closed, wlog, rlog, net, st, running>>

CallRenewalSigHash ==
    /\ call.op = "none"
    /\ \E final \in V2FileContracts, initial \in V2FileContracts :
       \E fcr \in {[FinalRevision |-> final, InitialRevision |-> initial,
                    RenterRollover |-> NewCurrency64(1),
                    HostRollover |-> NewCurrency64(2)]} :
       \E r \in {Alone("RenewalSigHash", RenewalSigHash(st, fcr), pool.buf[1])} :
           /\ call' = [op |-> "RenewalSigHash", args |-> [fcr |-> fcr],
                       run |-> r.c, prior |-> pool.buf[1]]
           /\ pool' = [pool EXCEPT !.buf[1] = r.buf]
    /\ UNCHANGED <<conn, closed, wlog, rlog, net, st, running>>

CallAttestationSigHash ==
    /\ call.op = "none"
    /\ \E a \in Attestations :
       \E r \in {Alone("AttestationSigHash", AttestationSigHash(st, a), pool.buf[1])} :
           /\ call' = [op |-> "AttestationSigHash", args |-> [a |-> a],
                       run |-> r.c, prior |-> pool.buf[1]]
           /\ pool' = [pool EXCEPT !.buf[1] = r.buf]
    /\ UNCHANGED <<conn, closed, wlog, rlog, net, st, running>>

HashNext ==
    \/ CallWholeSigHash
    \/ CallPartialSigHash
    \/ CallCommitment
    \/ CallInputSigHash
    \/ CallContractSigHash
    \/ CallRenewalSigHash
    \/ CallAttestationSigHash

SpecHash == HashInit /\ [][HashNext]_vars

\* the domain-separation tag of a v2 hash
TagOf(op) ==
    CASE op = "Commitment" -> CommitmentTag
      [] op = "InputSigHash" -> TransactionIDTag
      [] op = "ContractSigHash" -> FileContractTag
      [] op = "RenewalSigHash" -> FileContractRenewalTag
      [] op = "AttestationSigHash" -> AttestationTag

V2Hashes ==
    {"Commitment", "InputSigHash", "ContractSigHash", "RenewalSigHash",
     "AttestationSigHash"}

\* C11: the pre-image of every v2 hash begins with the raw bytes of its
\* domain-separation tag, with no length prefix in front, and the byte 0x02
\* follows the tag at once.
C11_TagIsRawThenTwo ==
    call.op \in V2Hashes =>
        LET tag == TagOf(call.op)
            p == call.run.preimage
        IN  /\ Len(p) > Len(tag)
            /\ Take(p, Len(tag)) = tag
            /\ p[Len(tag) + 1] = 2

\* What the program does achieve: the pre-image begins with the eight bytes
\* of the tag's length, then the tag, then the byte 0x02.
TagIsLengthPrefixedThenTwo ==
    call.op \in V2Hashes =>
        LET tag == TagOf(call.op)
            p == call.run.preimage
        IN  /\ Len(p) > 8 + Len(tag)
            /\ Take(p, 8) = WritePrefix(Len(tag))
            /\ SubSeq(p, 9, 8 + Len(tag)) = tag
            /\ p[8 + Len(tag) + 1] = 2

\* a list with the items at i and j exchanged
Swapped(q, i, j) == [q EXCEPT ![i] = q[j], ![j] = q[i]]

\* C12: Commitment adds len(txns) + len(v2txns) leaves to the accumulator, the
\* v1 transactions in list order and then the v2 transactions in list order,
\* each leaf the hash of that transaction's encoding alone; the state hash in
\* the final pre-image is the hash of the encoded state alone; the result
\* depends on (state, minerAddr, txns, v2txns) only, whatever the hasher held
\* before; and exchanging two distinct transactions changes the result.
C12_CommitmentLeavesInOrder ==
    call.op = "Commitment" =>
        LET a == call.args
            leaves ==
                [i \in 1..Len(a.txns) |-> HasherSum(TransactionEncodeTo(a.txns[i]))]
                    \o [i \in 1..Len(a.v2txns) |->
                           HasherSum(V2TransactionEncodeTo(a.v2txns[i]))]
            stateHash == HasherSum(StateEncodeTo(st))
            p == call.run.preimage
        IN  /\ call.run.acc = leaves
            /\ Len(call.run.acc) = Len(a.txns) + Len(a.v2txns)
            /\ call.run.stateHash = stateHash
            /\ SubSeq(p, Len(p) - 2, Len(p))
                   = <<stateHash, [address |-> a.minerAddr], AccumulatorRoot(leaves)>>
            /\ call.run.ret = HasherSum(p)
            /\ \A b \in PriorContents :
                   Alone("Commitment", Commitment(st, a.minerAddr, a.txns, a.v2txns), b).c.ret
                       = call.run.ret
            /\ \A i, j \in 1..Len(a.txns) :
                   a.txns[i] # a.txns[j] =>
                       Alone("Commitment",
                             Commitment(st, a.minerAddr, Swapped(a.txns, i, j), a.v2txns),
                             <<>>).c.ret # call.run.ret
            /\ \A i, j \in 1..Len(a.v2txns) :
                   a.v2txns[i] # a.v2txns[j] =>
                       Alone("Commitment",
                             Commitment(st, a.minerAddr, a.txns, Swapped(a.v2txns, i, j)),
                             <<>>).c.ret # call.run.ret

\* a commitment to two distinct v1 transactions and a v2 transaction, computed
\* on a hasher that held bytes of an earlier call
C12_Witness ==
    /\ call.op = "Commitment"
    /\ call.prior # <<>>
    /\ Len(call.args.txns) = 2
    /\ call.args.txns[1] # call.args.txns[2]
    /\ Len(call.args.v2txns) >= 1
    /\ Len(call.run.acc) = 2 + Len(call.args.v2txns)
    /\ call.run.ret # Nil
    /\ call.run.puts = 1

(***************************************************************************)
(* The hashing operations called concurrently.  Each goroutine runs one    *)
(* call, a statement at a time; hasherPool is a sync.Pool.                 *)
(***************************************************************************)
\* the goroutines that may be hashing at once
MaxGoroutines == 2

\* sync.Pool.Get taking a hasher that is in the pool: it is removed
\* a pool that hands a hasher out and keeps it
PoolTakeAndKeep(p, id) == p

PoolTake(p, id) == [p EXCEPT !.free = @ \ {id}]

\* sync.Pool.Get finding nothing to take: New makes a hasher, which is empty
PoolNew(p) == [p EXCEPT !.made = @ + 1, !.buf = Append(@, <<>>)]

\* sync.Pool.Put
PoolPut(p, id) == [p EXCEPT !.free = @ \cup {id}]

\* one call of each operation, in the order of the source; the selector of
\* the PartialSigHash names a signature the transaction does not have
HashingCalls ==
    LET txn == [SiacoinInputs |-> <<[ParentID |-> 1]>>, ArbitraryData |-> <<>>,
                Signatures |-> <<5>>]
        v2txn == [SiacoinInputs |-> <<[Parent |-> [ID |-> 3], Signature |-> 6]>>,
                  ArbitraryData |-> <<>>, NewFoundationAddress |-> Nil,
                  MinerFee |-> NewCurrency64(1)]
        fc == CHOOSE c \in V2FileContracts : c.Filesize = 64 /\ c.RevisionNumber = 1
        fcr == [FinalRevision |-> fc, InitialRevision |-> fc,
                RenterRollover |-> NewCurrency64(1), HostRollover |-> NewCurrency64(2)]
        a == [PublicKey |-> 1, Key |-> <<104, 105>>, Value |-> <<1, 2>>]
        cfOut == [SiacoinInputs |-> <<0>>, ArbitraryData |-> <<>>,
                  Signatures |-> <<0, 1>>]
    IN  <<[op |-> "WholeSigHash",
          code |-> WholeSigHash(net, st, txn, HasherSum(<<2>>), 0, 0, <<0>>)],
         [op |-> "PartialSigHash", code |-> PartialSigHash(net, st, txn, cfOut)],
         [op |-> "Commitment", code |-> Commitment(st, 1, <<txn>>, <<v2txn>>)],
         [op |-> "InputSigHash", code |-> InputSigHash(st, v2txn)],
         [op |-> "ContractSigHash", code |-> ContractSigHash(st, fc)],
         [op |-> "RenewalSigHash", code |-> RenewalSigHash(st, fcr)],
         [op |-> "AttestationSigHash", code |-> AttestationSigHash(st, a)]>>

\* the place of a call's operation in HashingCalls
JobOf(c) ==
    LET ops == <<"WholeSigHash", "PartialSigHash", "Commitment", "InputSigHash",
                 "ContractSigHash", "RenewalSigHash", "AttestationSigHash">>
    IN  CHOOSE j \in 1..Len(ops) : ops[j] = c.op

PoolInit ==
    /\ conn = <<>>
    /\ closed = FALSE
    /\ wlog = <<>>
    /\ rlog = <<>>
    /\ net = BaseNetwork
    /\ st = StateAt(net, 7)
    /\ call = NoCall
    /\ pool = [made |-> 0, free |-> {}, buf |-> <<>>]
    /\ running = <<>>

\* a goroutine calls one of the hashing operations.  Goroutines are
\* interchangeable and a call touches nothing shared before its Get, so the
\* calls are listed in the order of their operations
Go ==
    /\ Len(running) < MaxGoroutines
    /\ \E jobs \in {HashingCalls} : \E j \in 1..Len(jobs) :
           /\ IF running = <<>> THEN TRUE ELSE JobOf(running[Len(running)]) <= j
           /\ running' = Append(running, NewCall(jobs[j].op, jobs[j].code))
    /\ UNCHANGED <<conn, closed, wlog, rlog, net, st, call, pool>>

\* hasherPool.Get(): a hasher of the pool, removed from it, or a new one; the
\* pool may be treated as empty whatever it holds
Get ==
    /\ \E g \in 1..Len(running) :
           /\ At(running[g]) = "Get"
           /\ \/ \E id \in pool.free :
                     /\ pool' = PoolTake(pool, id)
                     /\ running' = [running EXCEPT ![g].pc = @ + 1, ![g].h = id,
                                                   ![g].gets = @ + 1]
              \/ /\ pool' = PoolNew(pool)
                 /\ running' = [running EXCEPT ![g].pc = @ + 1,
                                               ![g].h = pool.made + 1,
                                               ![g].gets = @ + 1]
    /\ UNCHANGED <<conn, closed, wlog, rlog, net, st, call>>

\* a statement on the hasher the goroutine holds
OnHasher(kinds) ==
    \E g \in 1..Len(running) :
        /\ At(running[g]) \in kinds
        /\ \E r \in {Exec(running[g], pool.buf[running[g].h])} :
               /\ running' = [running EXCEPT ![g] = r.c]
               /\ pool' = [pool EXCEPT !.buf[running[g].h] = r.buf]

Reset ==
    /\ OnHasher({"Reset"})
    /\ UNCHANGED <<conn, closed, wlog, rlog, net, st, call>>

Write ==
    /\ OnHasher({"Write", "WriteCommit"})
    /\ UNCHANGED <<conn, closed, wlog, rlog, net, st, call>>

Sum ==
    /\ OnHasher({"SumState", "AddLeaf", "Return"})
    /\ UNCHANGED <<conn, closed, wlog, rlog, net, st, call>>

Panic ==
    /\ OnHasher({"Panic"})
    /\ UNCHANGED <<conn, closed, wlog, rlog, net, st, call>>

\* the deferred hasherPool.Put(h)
Put ==
    /\ \E g \in 1..Len(running) :
           /\ At(running[g]) = "Put"
           /\ pool' = PoolPut(pool, running[g].h)
           /\ running' = [running EXCEPT ![g].pc = @ + 1, ![g].h = 0,
                                         ![g].puts = @ + 1]
    /\ UNCHANGED <<conn, closed, wlog, rlog, net, st, call>>

PoolNext == Go \/ Get \/ Reset \/ Write \/ Sum \/ Panic \/ Put

SpecPool == PoolInit /\ [][PoolNext]_vars

\* C13: under any interleaving of concurrent hashing calls on the pool, no
\* hasher is held by two calls at once (nor held while in the pool); no call
\* writes before it has reset its hasher; every call puts its hasher back
\* exactly once, also when PartialSigHash aborts on an index out of range;
\* and the result of every call is the result of the call run alone.
C13_CallsDoNotInterfere ==
    \A g \in 1..Len(running) :
        LET c == running[g]
        IN  /\ c.h # 0 => c.h \notin pool.free
            /\ \A g2 \in 1..Len(running) :
                   (g2 # g /\ c.h # 0) => running[g2].h # c.h
            /\ ~c.early
            /\ c.gets <= 1
            /\ c.puts = (IF Done(c) THEN 1 ELSE 0)
            /\ (c.h # 0) <=> (c.gets = 1 /\ c.puts = 0)
            /\ Done(c) => \E alone \in {Alone(c.op, c.code, <<>>).c} :
                              c.ret = alone.ret /\ c.panicked = alone.panicked
            /\ c.panicked => c.ret = Nil

\* two calls have ended, the second on the hasher the first had put back
\* with its bytes in it, one of them a PartialSigHash that aborted
C13_Witness ==
    /\ Len(running) >= 2
    /\ \A g \in 1..Len(running) : Done(running[g])
    /\ pool.made = 1
    /\ pool.buf[1] # <<>>
    /\ \E g \in 1..Len(running) : running[g].panicked /\ running[g].puts = 1
    /\ \E g \in 1..Len(running) : ~running[g].panicked /\ running[g].ret # Nil
====
